---- MODULE Spec2Model ----
(***************************************************************************)
(* Model of crazzybot/gpu-nn-training: a browser page that trains a small  *)
(* classifier on 2-D points with a host (CPU, JavaScript) backend and a    *)
(* device (WebGPU) backend.                                                *)
(*                                                                         *)
(* Spec       the page: DOMContentLoaded, the UI handlers and the async    *)
(*            function trainModel with both training loops.  JavaScript    *)
(*            runs one task at a time, so a handler can run only while     *)
(*            trainModel is suspended at an await (or is not running);     *)
(*            the device executes submitted stages on its own.             *)
(*            Parameters are tracked here by the number of update steps    *)
(*            each one has received.                                       *)
(* SpecLive   Spec with weak fairness of the steps of a run.               *)
(* SpecKernel two training steps with numeric values: the host's           *)
(*            computeGradients and the device's forward, gradient and      *)
(*            update passes, invocation by invocation, on the same         *)
(*            parameters and batch.                                        *)
(***************************************************************************)
EXTENDS Integers, Sequences, FiniteSets, TLC

\* ------------------------------------------------------------------------
\* Bounds of the model
MaxEpochs == 42        \* the epoch limit (100000 in the source)
MaxData == 2           \* clicks are accepted up to this many points
MaxRuns == 2           \* accepted start requests per behaviour
HIDDEN_SIZE == 2       \* NETWORK_CONFIG.HIDDEN_SIZE (32 in the source)
GenPoints == 1         \* `points` of the dataset generators (100 in the source)

\* Program constants
INPUT_SIZE == 2
OUTPUT_SIZE == 1
MinSamples == 2
MetricInterval == 10
VisualizeInterval == 50
NumLayers == 3

Coords == {0}
Modes == {"cpu", "gpu"}

VARIABLES
  gpu,              \* environment: navigator.gpu is "none" or "present"
  loaded,           \* the DOMContentLoaded handler has run
  attached,         \* the handler went on to register the listeners
  trainBtnDisabled, stopBtnDisabled,
  status,           \* kind of the last updateStatus message
  trainingData, currentClass, isTraining, device, lossHistory, cpuModel,
  pc,               \* where trainModel is: "idle" or one of its steps
  mode,             \* trainingMode of the current run
  run,              \* number of accepted start requests
  epoch,            \* loop counter of the current run
  batch,            \* inputs/targets the current run trains on
  params,           \* parameter id -> number of update steps applied
  paramsRun,        \* run whose createModel/initializeWeights made params
  upd,              \* host updateWeights: layers already updated
  lastVisualizeEpoch,
  gpuQueue,         \* device work submitted and not yet executed
  outputStamp,      \* device output buffer: update steps of the params it came from
  readStamp,        \* outputReadBuffer: same, after the copy
  \* history variables
  flagSet,          \* the stop handler cleared isTraining during this run
  startData,        \* history: trainingData when the current run was started
  stopSeenAt,       \* epochs executed when the loop first saw the flag, or -1
  exitKind,         \* how the loop of the current run ended
  epochsRun,        \* epochs of the current run whose steps have started
  failedAt,         \* epoch at which a step of the current run threw, or -1
  \* one training step of the numeric kernels (specification SpecKernel)
  kStage,           \* "off", or the pass in progress: "host", "forward", ...
  pending,          \* invocations of the current pass that have not run yet
  buffers,          \* device memory: buffer name -> array of values
  initialBuffers,   \* device memory as createBuffers left it
  hostGradients,    \* what the host's computeGradients returned
  kEpoch,           \* epoch of the kernel run
  invoked,          \* history: <<epoch, pass, invocation>> that have run
  writeLog          \* history: which invocation of which pass wrote which index

driverVars == <<gpu, loaded, attached, trainBtnDisabled, stopBtnDisabled, status,
          trainingData, currentClass, isTraining, device, lossHistory, cpuModel,
          pc, mode, run, epoch, batch, params, paramsRun, upd,
          lastVisualizeEpoch, gpuQueue, outputStamp, readStamp,
          flagSet, startData, stopSeenAt, exitKind, epochsRun, failedAt>>
kernelVars == <<kStage, pending, buffers, initialBuffers, hostGradients, kEpoch, invoked,
               writeLog>>
vars == <<driverVars, kernelVars>>

uiVars == <<trainBtnDisabled, stopBtnDisabled>>
dataVars == <<trainingData, currentClass>>
runVars == <<pc, mode, run, epoch, batch, params, paramsRun, upd,
             lastVisualizeEpoch, outputStamp, readStamp>>
histVars == <<flagSet, startData, stopSeenAt, exitKind, epochsRun, failedAt>>
envVars == <<gpu, loaded, attached>>

\* ------------------------------------------------------------------------
\* Parameters

\* Host model: createModel's layers, each with a weights and a bias array.
HostParamIds == {<<l, k>> : l \in 1..NumLayers, k \in {"weights", "bias"}}

\* Device model: the flat parameter index of the update stage.
ParamCount == (INPUT_SIZE + 2) * HIDDEN_SIZE + 1
DeviceParamIds == 0..(ParamCount - 1)

FreshParams(ids) == [p \in ids |-> 0]
Uniform(f) == \A p \in DOMAIN f, q \in DOMAIN f : f[p] = f[q]
StepsOf(f) == IF DOMAIN f = {} THEN 0 ELSE f[CHOOSE p \in DOMAIN f : TRUE]

\* (a variant whose metric epochs are 1, 11, 21, ...)
IsMetricEpochOffByOne(e) == e % MetricInterval = 1
IsMetricEpoch(e) == e % MetricInterval = 0

\* ------------------------------------------------------------------------
\* Page load

Init ==
  /\ gpu \in {"none", "present"}
  /\ loaded = FALSE
  /\ attached = FALSE
  /\ trainBtnDisabled = FALSE
  /\ stopBtnDisabled \in BOOLEAN
  /\ status = "none"
  /\ trainingData = <<>>
  /\ currentClass = 0
  /\ isTraining = FALSE
  /\ device = "undefined"
  /\ lossHistory = <<>>
  /\ cpuModel = 0
  /\ pc = "idle"
  /\ mode = "gpu"
  /\ run = 0
  /\ epoch = 0
  /\ batch = <<>>
  /\ params = <<>>
  /\ paramsRun = 0
  /\ upd = 0
  /\ lastVisualizeEpoch = 0
  /\ gpuQueue = <<>>
  /\ outputStamp = 0
  /\ readStamp = 0
  /\ flagSet = FALSE
  /\ startData = <<>>
  /\ stopSeenAt = -1
  /\ exitKind = "none"
  /\ epochsRun = 0
  /\ failedAt = -1
  /\ kStage = "off"
  /\ pending = {}
  /\ buffers = <<>>
  /\ initialBuffers = <<>>
  /\ hostGradients = <<>>
  /\ kEpoch = 0
  /\ invoked = {}
  /\ writeLog = {}

DOMContentLoaded ==
  /\ ~loaded
  /\ loaded' = TRUE
  /\ IF gpu = "none"
       THEN /\ status' = "unsupported"
            /\ trainBtnDisabled' = TRUE
            /\ attached' = FALSE
       ELSE /\ attached' = TRUE
            /\ UNCHANGED <<status, trainBtnDisabled>>
  /\ UNCHANGED <<gpu, stopBtnDisabled, dataVars, isTraining, device, lossHistory,
                 cpuModel, runVars, gpuQueue, histVars>>
  /\ UNCHANGED kernelVars

\* ------------------------------------------------------------------------
\* The JavaScript event loop: a handler runs only when no task is running,
\* i.e. when trainModel is not active or is suspended at one of its awaits.

AwaitPcs == {"gpu_init", "gpu_map", "gpu_viz", "gpu_yield", "cpu_yield"}
\* (a variant in which a handler may run between any two steps of a run)
CanRunHandlerAnywhere == attached
CanRunHandler == attached /\ pc \in AwaitPcs \cup {"idle"}
Running == pc # "idle"

\* ------------------------------------------------------------------------
\* Data handlers

Point(x, y, c) == [x |-> x, y |-> y, class |-> c]

\* generateSpiral / generateCircle: `points` iterations, one point of each class
\* per iteration.  The coordinates are abstracted to one token per generator.
RECURSIVE GeneratePairs(_, _)
GeneratePairs(n, xy) ==
  IF n = 0 THEN <<>>
  ELSE GeneratePairs(n - 1, xy) \o <<Point(xy, xy, 0), Point(xy, xy, 1)>>

generateSpiral == GeneratePairs(GenPoints, 2)
generateCircle == GeneratePairs(GenPoints, 3)

CanvasClick ==
  /\ CanRunHandler
  /\ Len(trainingData) < MaxData
  /\ \E x \in Coords, y \in Coords :
       trainingData' = Append(trainingData, Point(x, y, currentClass))
  /\ currentClass' = 1 - currentClass
  /\ status' = "points_added"
  /\ UNCHANGED <<envVars, uiVars, isTraining, device, lossHistory, cpuModel,
                 runVars, gpuQueue, histVars>>
  /\ UNCHANGED kernelVars

\* clearData, with the dataset it leaves behind (empty, or a generated one for
\* loadSpiral / loadCircle, which call clearData first).
ClearThenLoad(data) ==
  /\ CanRunHandler
  /\ trainingData' = data
  /\ currentClass' = 0
  /\ lossHistory' = <<>>
  /\ cpuModel' = 0
  /\ status' = "cleared"
  /\ UNCHANGED <<envVars, uiVars, isTraining, device, runVars, gpuQueue, histVars>>
  /\ UNCHANGED kernelVars

clearData == ClearThenLoad(<<>>)
loadSpiral == ClearThenLoad(generateSpiral)
loadCircle == ClearThenLoad(generateCircle)

\* stopBtn listener
\* (a variant that also enables the train button again)
StopClickEnablesStart ==
  /\ CanRunHandler
  /\ ~stopBtnDisabled
  /\ isTraining' = FALSE
  /\ status' = "stopped_by_user"
  /\ flagSet' = (flagSet \/ Running)
  /\ trainBtnDisabled' = FALSE
  /\ UNCHANGED <<envVars, stopBtnDisabled, dataVars, device, lossHistory, cpuModel,
                 runVars, gpuQueue, startData, stopSeenAt, exitKind, epochsRun, failedAt>>
  /\ UNCHANGED kernelVars
StopClick ==
  /\ CanRunHandler
  /\ ~stopBtnDisabled
  /\ isTraining' = FALSE
  /\ status' = "stopped_by_user"
  /\ flagSet' = (flagSet \/ Running)
  /\ UNCHANGED <<envVars, uiVars, dataVars, device, lossHistory, cpuModel,
                 runVars, gpuQueue, startData, stopSeenAt, exitKind, epochsRun, failedAt>>
  /\ UNCHANGED kernelVars

\* ------------------------------------------------------------------------
\* trainModel: entry

TooFewSamplesOffByOne(data) == Len(data) < MinSamples - 1
TooFewSamples(data) == Len(data) < MinSamples

\* lines 49-51, and the reset of the history variables for the new run
StartNoHistoryReset ==
  /\ isTraining' = TRUE
  /\ trainBtnDisabled' = TRUE
  /\ stopBtnDisabled' = FALSE
  /\ UNCHANGED lossHistory
  /\ run' = run + 1
  /\ flagSet' = FALSE
  /\ startData' = trainingData
  /\ stopSeenAt' = -1
  /\ exitKind' = "none"
  /\ epochsRun' = 0
  /\ failedAt' = -1
StartRun ==
  /\ isTraining' = TRUE
  /\ trainBtnDisabled' = TRUE
  /\ stopBtnDisabled' = FALSE
  /\ lossHistory' = <<>>
  /\ run' = run + 1
  /\ flagSet' = FALSE
  /\ startData' = trainingData
  /\ stopSeenAt' = -1
  /\ exitKind' = "none"
  /\ epochsRun' = 0
  /\ failedAt' = -1

\* A click on the (enabled) train button: the synchronous part of trainModel up
\* to the first loop iteration (host) or the first await (device).
TrainClick ==
  /\ CanRunHandler
  /\ ~trainBtnDisabled
  /\ IF TooFewSamples(trainingData)
       THEN /\ status' = "validation_error"
            /\ UNCHANGED <<envVars, uiVars, dataVars, isTraining, device, lossHistory,
                           cpuModel, runVars, gpuQueue, histVars>>
       ELSE /\ run < MaxRuns
            /\ StartRun
            /\ \E m \in Modes :
                 /\ mode' = m
                 /\ IF m = "cpu"
                      THEN /\ status' = "training_cpu"
                           /\ params' = FreshParams(HostParamIds)
                           /\ paramsRun' = run + 1
                           /\ batch' = trainingData
                           /\ pc' = "cpu_top"
                           \* the buffers of an earlier device run are out of reach
                           /\ outputStamp' = 0
                           /\ readStamp' = 0
                      ELSE /\ status' = "initializing_webgpu"
                           /\ pc' = IF device = "undefined" THEN "gpu_init" ELSE "gpu_setup"
                           /\ UNCHANGED <<params, paramsRun, batch, outputStamp, readStamp>>
            /\ epoch' = 0
            /\ upd' = 0
            /\ lastVisualizeEpoch' = 0
            /\ UNCHANGED <<envVars, dataVars, device, cpuModel, gpuQueue>>
  /\ UNCHANGED kernelVars

\* ------------------------------------------------------------------------
\* trainModel: exit

\* lines 196-197
TrainModelExitKeepsFlag ==
  /\ UNCHANGED isTraining
  /\ trainBtnDisabled' = trainBtnDisabled
  /\ stopBtnDisabled' = stopBtnDisabled
  /\ pc' = "idle"
  /\ startData' = <<>>
\* (a variant that leaves the controls as they are)
TrainModelExitKeepsButtons ==
  /\ isTraining' = FALSE
  /\ UNCHANGED <<trainBtnDisabled, stopBtnDisabled>>
  /\ pc' = "idle"
  /\ startData' = <<>>
TrainModelExit ==
  /\ isTraining' = FALSE
  /\ trainBtnDisabled' = FALSE
  /\ stopBtnDisabled' = TRUE
  /\ pc' = "idle"
  /\ startData' = <<>>

\* The catch block: a step of the run threw at one of the places that can throw
\* (initWebGPU, createTrainingPipelines, the encoding and submission of an epoch,
\* mapAsync, visualizeModel, the progress callback).  A WebGPU call of the loop
\* throws or rejects when the device is lost, and a lost device executes none of
\* the work still pending; what it executed before is whatever DeviceExec did.
ThrowPcs == {"gpu_init", "gpu_setup", "gpu_top", "gpu_map", "gpu_viz", "cpu_metrics"}

Fail ==
  /\ pc \in ThrowPcs
  /\ pc = "gpu_top" => (epoch < MaxEpochs /\ isTraining)
  /\ status' = "failed"
  /\ failedAt' = epoch
  /\ exitKind' = "error"
  /\ gpuQueue' = <<>>
  /\ TrainModelExit
  /\ UNCHANGED <<envVars, dataVars, device, lossHistory, cpuModel, mode, run, epoch,
                 batch, params, paramsRun, upd, lastVisualizeEpoch, outputStamp,
                 readStamp, flagSet, stopSeenAt, epochsRun>>
  /\ UNCHANGED kernelVars

\* ------------------------------------------------------------------------
\* Host backend: trainCPU and the rest of trainModel's CPU branch

\* shouldStop, the closure () => !isTraining
ShouldStop == ~isTraining

LossEntry(steps) == [run |-> run, epoch |-> epoch, steps |-> steps]

\* for (epoch < epochs) { if (shouldStop()) break; ... : the loop goes on
CpuLoopIgnoresStop == epoch < MaxEpochs
CpuLoopContinues == epoch < MaxEpochs /\ ~ShouldStop

\* The loop head of trainCPU, and computeGradients when the loop goes on
CpuLoopTop ==
  /\ pc = "cpu_top"
  /\ stopSeenAt' = IF epoch < MaxEpochs /\ ShouldStop /\ stopSeenAt < 0
                     THEN epoch ELSE stopSeenAt
  /\ IF CpuLoopContinues
       THEN /\ pc' = "cpu_update"
            /\ upd' = 0
            /\ epochsRun' = epoch + 1
            /\ UNCHANGED exitKind
       ELSE /\ exitKind' = IF epoch >= MaxEpochs THEN "limit" ELSE "cancel"
            /\ pc' = "cpu_ret"
            /\ UNCHANGED <<epochsRun, upd>>
  /\ UNCHANGED <<envVars, uiVars, status, dataVars, isTraining, device, lossHistory,
                 cpuModel, mode, run, epoch, batch, params, paramsRun,
                 lastVisualizeEpoch, gpuQueue, outputStamp, readStamp, flagSet,
                 startData, failedAt>>
  /\ UNCHANGED kernelVars

\* updateWeights: the loop over model.layers, one layer per step
HostLayersButLast == NumLayers - 1
HostLayersToUpdate == NumLayers

CpuUpdateLayer ==
  /\ pc = "cpu_update"
  /\ IF upd < HostLayersToUpdate
       THEN /\ params' = [p \in DOMAIN params |->
                            IF p[1] = upd + 1 THEN params[p] + 1 ELSE params[p]]
            /\ upd' = upd + 1
            /\ UNCHANGED <<pc, epoch>>
       ELSE /\ pc' = IF IsMetricEpoch(epoch) THEN "cpu_metrics" ELSE "cpu_top"
            /\ epoch' = IF IsMetricEpoch(epoch) THEN epoch ELSE epoch + 1
            /\ UNCHANGED <<params, upd>>
  /\ UNCHANGED <<envVars, uiVars, status, dataVars, isTraining, device, lossHistory,
                 cpuModel, mode, run, batch, paramsRun, lastVisualizeEpoch, gpuQueue,
                 outputStamp, readStamp, histVars>>
  /\ UNCHANGED kernelVars

\* calculateMetrics and the onProgress callback of trainModel
CpuMetrics ==
  /\ pc = "cpu_metrics"
  /\ lossHistory' = Append(lossHistory, LossEntry(StepsOf(params)))
  /\ lastVisualizeEpoch' = IF epoch - lastVisualizeEpoch >= VisualizeInterval
                             THEN epoch ELSE lastVisualizeEpoch
  /\ pc' = "cpu_yield"
  /\ UNCHANGED <<envVars, uiVars, status, dataVars, isTraining, device, cpuModel,
                 mode, run, epoch, batch, params, paramsRun, upd, gpuQueue,
                 outputStamp, readStamp, histVars>>
  /\ UNCHANGED kernelVars

\* the timer of `await new Promise(resolve => setTimeout(resolve, 0))` fires
CpuResume ==
  /\ pc = "cpu_yield"
  /\ epoch' = epoch + 1
  /\ pc' = "cpu_top"
  /\ UNCHANGED <<envVars, uiVars, status, dataVars, isTraining, device, lossHistory,
                 cpuModel, mode, run, batch, params, paramsRun, upd,
                 lastVisualizeEpoch, gpuQueue, outputStamp, readStamp, histVars>>
  /\ UNCHANGED kernelVars

\* if (isTraining) updateStatus("Training completed!", "success")
CompletionStatusAlways == "completed"
CompletionStatus == IF isTraining THEN "completed" ELSE status

\* cpuModel = await trainCPU(...); the completion report; lines 196-197
CpuReturn ==
  /\ pc = "cpu_ret"
  /\ cpuModel' = paramsRun
  /\ status' = CompletionStatus
  /\ TrainModelExit
  /\ UNCHANGED <<envVars, dataVars, device, lossHistory, mode, run, epoch, batch,
                 params, paramsRun, upd, lastVisualizeEpoch, gpuQueue, outputStamp,
                 readStamp, flagSet, stopSeenAt, exitKind, epochsRun, failedAt>>
  /\ UNCHANGED kernelVars

\* ------------------------------------------------------------------------
\* Device backend: trainModel's GPU branch

\* initWebGPU resolves with a device (when requestAdapter returns null or
\* requestDevice rejects, it throws: Fail at "gpu_init")
GpuInitResolve ==
  /\ pc = "gpu_init"
  /\ device' = "dev"
  /\ pc' = "gpu_setup"
  /\ UNCHANGED <<envVars, uiVars, status, dataVars, isTraining, lossHistory, cpuModel,
                 mode, run, epoch, batch, params, paramsRun, upd, lastVisualizeEpoch,
                 gpuQueue, outputStamp, readStamp, histVars>>
  /\ UNCHANGED kernelVars

\* prepareTrainingData, createTrainingPipelines (initializeWeights, createBuffers)
GpuSetup ==
  /\ pc = "gpu_setup"
  /\ batch' = trainingData
  /\ params' = FreshParams(DeviceParamIds)
  /\ paramsRun' = run
  /\ outputStamp' = 0
  /\ readStamp' = 0
  /\ status' = "training_started"
  /\ epoch' = 0
  /\ pc' = "gpu_top"
  /\ UNCHANGED <<envVars, uiVars, dataVars, isTraining, device, lossHistory, cpuModel,
                 mode, run, upd, lastVisualizeEpoch, gpuQueue, histVars>>
  /\ UNCHANGED kernelVars

Stage(kind) == [kind |-> kind, run |-> run, epoch |-> epoch]

\* The command buffer of one epoch: three compute passes, and the copy of the
\* output buffer on a metric epoch.
EpochCommands ==
  <<Stage("forward"), Stage("gradient"), Stage("update")>>
    \o (IF IsMetricEpoch(epoch) THEN <<Stage("copy")>> ELSE <<>>)

\* for (let epoch = 0; epoch < 100000 && isTraining; epoch++)
GpuLoopContinues == epoch < MaxEpochs /\ isTraining

\* The loop head of the GPU branch; an iteration encodes and submits its epoch
GpuLoopTop ==
  /\ pc = "gpu_top"
  /\ stopSeenAt' = IF epoch < MaxEpochs /\ ~isTraining /\ stopSeenAt < 0
                     THEN epoch ELSE stopSeenAt
  /\ IF GpuLoopContinues
       THEN /\ gpuQueue' = gpuQueue \o EpochCommands
            /\ epochsRun' = epoch + 1
            /\ pc' = IF IsMetricEpoch(epoch) THEN "gpu_map" ELSE "gpu_top"
            /\ epoch' = IF IsMetricEpoch(epoch) THEN epoch ELSE epoch + 1
            /\ UNCHANGED exitKind
       ELSE /\ exitKind' = IF epoch >= MaxEpochs THEN "limit" ELSE "cancel"
            /\ pc' = "gpu_done"
            /\ UNCHANGED <<gpuQueue, epochsRun, epoch>>
  /\ UNCHANGED <<envVars, uiVars, status, dataVars, isTraining, device, lossHistory,
                 cpuModel, mode, run, batch, params, paramsRun, upd,
                 lastVisualizeEpoch, outputStamp, readStamp, flagSet, startData,
                 failedAt>>
  /\ UNCHANGED kernelVars

\* mapAsync resolves once the submitted work is done; calculateLoss, updateMetrics,
\* lossHistory.push, and the submission of visualizeModel's forward pass
GpuMapResolve ==
  /\ pc = "gpu_map"
  /\ gpuQueue = <<>>
  /\ lossHistory' = Append(lossHistory, LossEntry(readStamp))
  /\ IF epoch % VisualizeInterval = 0
       THEN /\ gpuQueue' = <<Stage("visualize")>>
            /\ pc' = "gpu_viz"
       ELSE /\ gpuQueue' = gpuQueue
            /\ pc' = "gpu_yield"
  /\ UNCHANGED <<envVars, uiVars, status, dataVars, isTraining, device, cpuModel,
                 mode, run, epoch, batch, params, paramsRun, upd, lastVisualizeEpoch,
                 outputStamp, readStamp, histVars>>
  /\ UNCHANGED kernelVars

\* visualizeModel's mapAsync resolves
GpuVizResolve ==
  /\ pc = "gpu_viz"
  /\ gpuQueue = <<>>
  /\ pc' = "gpu_yield"
  /\ UNCHANGED <<envVars, uiVars, status, dataVars, isTraining, device, lossHistory,
                 cpuModel, mode, run, epoch, batch, params, paramsRun, upd,
                 lastVisualizeEpoch, gpuQueue, outputStamp, readStamp, histVars>>
  /\ UNCHANGED kernelVars

GpuResume ==
  /\ pc = "gpu_yield"
  /\ epoch' = epoch + 1
  /\ pc' = "gpu_top"
  /\ UNCHANGED <<envVars, uiVars, status, dataVars, isTraining, device, lossHistory,
                 cpuModel, mode, run, batch, params, paramsRun, upd,
                 lastVisualizeEpoch, gpuQueue, outputStamp, readStamp, histVars>>
  /\ UNCHANGED kernelVars

GpuDone ==
  /\ pc = "gpu_done"
  /\ status' = CompletionStatus
  /\ TrainModelExit
  /\ UNCHANGED <<envVars, dataVars, device, lossHistory, cpuModel, mode, run, epoch,
                 batch, params, paramsRun, upd, lastVisualizeEpoch, gpuQueue,
                 outputStamp, readStamp, flagSet, stopSeenAt, exitKind, epochsRun,
                 failedAt>>
  /\ UNCHANGED kernelVars

\* ------------------------------------------------------------------------
\* The device executes the submitted stages in order, one stage at a time.

\* updatePass.dispatchWorkgroups((INPUT_SIZE + 2) * HIDDEN_SIZE + 1)
UpdateDispatchShort == (INPUT_SIZE + 2) * HIDDEN_SIZE
UpdateDispatchCount == (INPUT_SIZE + 2) * HIDDEN_SIZE + 1

\* The passes whose bind group has the parameter buffers as read_write
\* storage: the update pass alone.
WritesParametersForwardToo(kind) == kind \in {"forward", "update"}
WritesParameters(kind) == kind = "update"

DeviceExec ==
  /\ gpuQueue # <<>>
  /\ LET h == Head(gpuQueue)
         live == h.run = paramsRun /\ DOMAIN params = DeviceParamIds
     IN /\ gpuQueue' = Tail(gpuQueue)
        /\ params' = IF live /\ WritesParameters(h.kind)
                       THEN [p \in DOMAIN params |->
                               IF p < UpdateDispatchCount THEN params[p] + 1 ELSE params[p]]
                       ELSE params
        /\ outputStamp' = IF live /\ h.kind = "forward" THEN StepsOf(params) ELSE outputStamp
        /\ readStamp' = IF live /\ h.kind = "copy" THEN outputStamp ELSE readStamp
  /\ UNCHANGED <<envVars, uiVars, status, dataVars, isTraining, device, lossHistory,
                 cpuModel, pc, mode, run, epoch, batch, paramsRun, upd,
                 lastVisualizeEpoch, histVars>>
  /\ UNCHANGED kernelVars

\* ------------------------------------------------------------------------
Next ==
  \/ DOMContentLoaded
  \/ CanvasClick \/ clearData \/ loadSpiral \/ loadCircle
  \/ StopClick \/ TrainClick
  \/ CpuLoopTop \/ CpuUpdateLayer \/ CpuMetrics \/ CpuResume \/ CpuReturn
  \/ GpuInitResolve \/ GpuSetup \/ GpuLoopTop \/ GpuMapResolve \/ GpuVizResolve
  \/ GpuResume \/ GpuDone
  \/ DeviceExec
  \/ Fail

Spec == Init /\ [][Next]_vars

\* The steps of a run: the synchronous code of trainModel and trainCPU between
\* two awaits, the resolution of an awaited promise (initWebGPU, mapAsync,
\* visualizeModel, the setTimeout of a yield) and the device's execution of
\* submitted work.
RunStep ==
  \/ CpuLoopTop \/ CpuUpdateLayer \/ CpuMetrics \/ CpuResume \/ CpuReturn
  \/ GpuInitResolve \/ GpuSetup \/ GpuLoopTop \/ GpuMapResolve \/ GpuVizResolve
  \/ GpuResume \/ GpuDone
  \/ DeviceExec

\* The page with a scheduler that runs the code that is ready to run and a
\* device and timers that answer: a run that can take a step takes one.
SpecLive == Init /\ [][Next]_vars /\ WF_vars(RunStep)

\* ------------------------------------------------------------------------
\* Numeric kernels: one training step of both backends on the same batch.
\* Numbers are exact rationals <<numerator, denominator>> in lowest terms with
\* a positive denominator; the rounding of f32 / f64 arithmetic is not
\* modelled.  Arrays (Float32Array, storage buffers) are functions on 0..n-1.

RECURSIVE GCD(_, _)
GCD(a, b) == IF b = 0 THEN a ELSE GCD(b, a % b)
Abs(n) == IF n < 0 THEN 0 - n ELSE n
Rat(n, d) ==
  IF n = 0 /\ d # 0 THEN <<0, 1>>
  ELSE IF d < 0 THEN <<(0 - n) \div GCD(Abs(n), 0 - d), (0 - d) \div GCD(Abs(n), 0 - d)>>
  ELSE <<n \div GCD(Abs(n), d), d \div GCD(Abs(n), d)>>
Zero == Rat(0, 1)
One == Rat(1, 1)
\* (common factors are divided out before multiplying, to keep the
\* intermediate products small; sums over a common denominator and products
\* with zero are taken directly)
RAdd(a, b) ==
  IF a[2] = b[2] THEN Rat(a[1] + b[1], a[2])
  ELSE Rat(a[1] * (b[2] \div GCD(a[2], b[2])) + b[1] * (a[2] \div GCD(a[2], b[2])),
           (a[2] \div GCD(a[2], b[2])) * b[2])
RSub(a, b) == RAdd(a, <<0 - b[1], b[2]>>)
RMul(a, b) == IF a[1] = 0 \/ b[1] = 0 THEN <<0, 1>> ELSE Rat(a[1] * b[1], a[2] * b[2])
RDiv(a, b) == IF a[1] = 0 /\ b[1] # 0 THEN <<0, 1>> ELSE Rat(a[1] * b[2], a[2] * b[1])
RLess(a, b) == a[1] * b[2] < b[1] * a[2]
RMax(a, b) == IF RLess(a, b) THEN b ELSE a
RMin(a, b) == IF RLess(b, a) THEN b ELSE a

Length(array) == Cardinality(DOMAIN array)
Zeros(n) == [i \in 0..(n - 1) |-> Zero]

\* `var sum = start; for (n) sum += terms[n]`
RECURSIVE Accumulate(_, _, _)
Accumulate(start, terms, n) ==
  IF n = 0 THEN start ELSE RAdd(Accumulate(start, terms, n - 1), terms[n - 1])

\* Activation functions; the same text in shaders.ts and cpu-training.ts.
\* 1 / (1 + exp(-x)) is replaced by a monotone step table with values in (0,1)
\* and sigmoid(0) = 1/2, shared by both backends.
sigmoid(x) ==
  IF RLess(x, Zero)
    THEN IF RLess(RSub(Zero, One), x) THEN Rat(2, 5) ELSE Rat(1, 5)
    ELSE IF x = Zero THEN Rat(1, 2)
    ELSE IF RLess(x, One) THEN Rat(3, 5) ELSE Rat(4, 5)
sigmoid_derivative(x) == LET s == sigmoid(x) IN RMul(s, RSub(One, s))
relu(x) == RMax(Zero, x)
relu_derivative(x) == IF RLess(Zero, x) THEN One ELSE Zero

LEARNING_RATE == Rat(1, 20)

\* prepareTrainingData: the flat input and target arrays of the device
prepareTrainingData(data) ==
  [inputs |-> [i \in 0..(Len(data) * 2 - 1) |->
                 IF i % 2 = 0 THEN data[(i \div 2) + 1].x ELSE data[(i \div 2) + 1].y],
   targets |-> [i \in 0..(Len(data) - 1) |-> Rat(data[i + 1].class, 1)]]

\* initializeLayerWeights draws random numbers; here one of a few fixed
\* sequences of values in [-1, 1], selected by seed.
Pattern(seed, n) == Rat((((seed + 1) * (n + 1) + seed) % 5) - 2, 2)
initializeLayerWeights(input, output, seed) ==
  [i \in 0..(input * output - 1) |-> Pattern(seed, i)]

initializeWeights(seed) ==
  [weights1 |-> initializeLayerWeights(INPUT_SIZE, HIDDEN_SIZE, seed),
   bias1 |-> Zeros(HIDDEN_SIZE),
   weights2 |-> initializeLayerWeights(HIDDEN_SIZE, OUTPUT_SIZE, seed + 1),
   bias2 |-> Zeros(OUTPUT_SIZE)]

\* createBuffers: the data and parameter buffers hold what was written to
\* them, the others are created with the sizes below (in elements; a new
\* buffer is zero-filled).
createBuffers(inputs, targets, weights) ==
  LET batchSize == Length(targets)
  IN [input |-> inputs,
      target_val |-> targets,
      weights1 |-> weights.weights1,
      bias1 |-> weights.bias1,
      weights2 |-> weights.weights2,
      bias2 |-> weights.bias2,
      pre_activation |-> Zeros(batchSize * (HIDDEN_SIZE + 1)),
      output |-> Zeros(batchSize),
      grad_weights1 |-> Zeros(batchSize * INPUT_SIZE * HIDDEN_SIZE),
      grad_bias1 |-> Zeros(batchSize * HIDDEN_SIZE),
      grad_weights2 |-> Zeros(batchSize * HIDDEN_SIZE),
      grad_bias2 |-> Zeros(batchSize)]

\* ------------------------------------------------------------------------
\* Device kernels.  Each operator gives the stores of one invocation as a set
\* of <<buffer, index, value>>, computed from the current device memory.

PreActivationOffsetPacked(idx) == idx * HIDDEN_SIZE
PreActivationOffset(idx) == idx * (HIDDEN_SIZE + 1)

\* the place of the weight from input i to hidden unit h in weights1
\* (a variant that reads it with one row per unit)
ForwardWeights1OffsetByUnit(i, h) == h * INPUT_SIZE + i
ForwardWeights1Offset(i, h) == i * HIDDEN_SIZE + h

forward(idx) ==
  LET batch_size == Length(buffers.input) \div INPUT_SIZE
      pre_activation_offset == PreActivationOffset(idx)
      sum(h) == Accumulate(buffers.bias1[h],
                           [i \in 0..(INPUT_SIZE - 1) |->
                              RMul(buffers.input[idx * INPUT_SIZE + i],
                                   buffers.weights1[ForwardWeights1Offset(i, h)])],
                           INPUT_SIZE)
      out_sum == Accumulate(buffers.bias2[0],
                            [h \in 0..(HIDDEN_SIZE - 1) |->
                               RMul(relu(sum(h)), buffers.weights2[h])],
                            HIDDEN_SIZE)
  IN IF idx >= batch_size THEN {}
     ELSE {<<"pre_activation", pre_activation_offset + h, sum(h)>> :
             h \in 0..(HIDDEN_SIZE - 1)}
          \cup {<<"pre_activation", pre_activation_offset + HIDDEN_SIZE, out_sum>>,
                <<"output", idx, sigmoid(out_sum)>>}

\* the place of the weight from input i to hidden unit h in a weights1 slice
GradWeights1OffsetTransposed(i, h) == h * INPUT_SIZE + i
GradWeights1Offset(i, h) == i * HIDDEN_SIZE + h

compute_gradients(idx) ==
  LET batch_size == Length(buffers.input) \div INPUT_SIZE
      pre_activation_offset == PreActivationOffset(idx)
      output_delta == RSub(buffers.output[idx], buffers.target_val[idx])
      pre(h) == buffers.pre_activation[pre_activation_offset + h]
      deltas(h) == RMul(RMul(output_delta, buffers.weights2[h]), relu_derivative(pre(h)))
  IN IF idx >= batch_size THEN {}
     ELSE {<<"grad_weights2", idx * HIDDEN_SIZE + h, RMul(relu(pre(h)), output_delta)>> :
             h \in 0..(HIDDEN_SIZE - 1)}
          \cup {<<"grad_bias2", idx, output_delta>>}
          \cup {<<"grad_weights1",
                  idx * INPUT_SIZE * HIDDEN_SIZE + GradWeights1Offset(i, h),
                  RMul(deltas(h), buffers.input[idx * INPUT_SIZE + i])>> :
                  i \in 0..(INPUT_SIZE - 1), h \in 0..(HIDDEN_SIZE - 1)}
          \cup {<<"grad_bias1", idx * HIDDEN_SIZE + h, deltas(h)>> :
                  h \in 0..(HIDDEN_SIZE - 1)}

\* The *_idx values are u32; each subtraction is reached only when its result
\* is not negative, so none of them wraps.
update_weights(param_idx) ==
  LET batch_size == Length(buffers.grad_bias2)
      lr == LEARNING_RATE
      total_weights1 == INPUT_SIZE * HIDDEN_SIZE
      bias1_idx == param_idx - total_weights1
      weights2_idx == bias1_idx - HIDDEN_SIZE
      bias2_idx == weights2_idx - HIDDEN_SIZE
      grad_sum(grad, stride, i) ==
        Accumulate(Zero, [b \in 0..(batch_size - 1) |-> buffers[grad][b * stride + i]],
                   batch_size)
      Step(name, grad, stride, i) ==
        {<<name, i, RSub(buffers[name][i],
                         RDiv(RMul(lr, grad_sum(grad, stride, i)), Rat(batch_size, 1)))>>}
  IN IF param_idx < total_weights1
       THEN Step("weights1", "grad_weights1", total_weights1, param_idx)
     ELSE IF bias1_idx < HIDDEN_SIZE
       THEN Step("bias1", "grad_bias1", HIDDEN_SIZE, bias1_idx)
     ELSE IF weights2_idx < HIDDEN_SIZE
       THEN Step("weights2", "grad_weights2", HIDDEN_SIZE, weights2_idx)
     ELSE IF bias2_idx = 0
       THEN Step("bias2", "grad_bias2", 1, 0)
     ELSE {}

\* ------------------------------------------------------------------------
\* Host kernels.  A model is a sequence of layers (numInputs, numUnits,
\* weights packed [numUnits][numInputs], bias, activation).

Activate(activation, x) == IF activation = "relu" THEN relu(x) ELSE sigmoid(x)
ActivateDerivative(activation, x) ==
  IF activation = "relu" THEN relu_derivative(x) ELSE sigmoid_derivative(x)

Epsilon == Rat(1, 10000000)
\* binaryCrossEntropy.derivative
LossDerivative(predicted, target) ==
  LET p == RMax(Epsilon, RMin(RSub(One, Epsilon), predicted))
  IN RDiv(RSub(p, target), RMul(p, RSub(One, p)))

\* forwardPass, one sample: the pre-activation values of layer l, and the
\* input that layer sees (the sample, or the activations of layer l - 1).
RECURSIVE PreActivations(_, _, _)
LayerInput(model, sample, l) ==
  IF l = 1 THEN sample
  ELSE [j \in 0..(model[l - 1].numUnits - 1) |->
          Activate(model[l - 1].activation, PreActivations(model, sample, l - 1)[j])]
PreActivations(model, sample, l) ==
  LET layer == model[l]
      currentInput == LayerInput(model, sample, l)
  IN [j \in 0..(layer.numUnits - 1) |->
        Accumulate(layer.bias[j],
                   [k \in 0..(layer.numInputs - 1) |->
                      RMul(currentInput[k], layer.weights[j * layer.numInputs + k])],
                   layer.numInputs)]

forwardPass(model, sample) ==
  LET numLayers == Len(model)
  IN [j \in 0..(model[numLayers].numUnits - 1) |->
        Activate(model[numLayers].activation, PreActivations(model, sample, numLayers)[j])]

\* computeGradients: delta of layer l for one sample (lines 129-135 for the
\* output layer, prevDelta of lines 151-162 for the layers below it).
RECURSIVE Delta(_, _, _, _)
Delta(model, sample, target, l) ==
  IF l = Len(model)
    THEN [j \in 0..(model[l].numUnits - 1) |->
            RMul(LossDerivative(forwardPass(model, sample)[j], target[j]),
                 ActivateDerivative(model[l].activation,
                                    PreActivations(model, sample, l)[j]))]
    ELSE LET layer == model[l + 1]
             delta == Delta(model, sample, target, l + 1)
         IN [k \in 0..(layer.numInputs - 1) |->
               RMul(Accumulate(Zero,
                               [j \in 0..(layer.numUnits - 1) |->
                                  RMul(delta[j], layer.weights[j * layer.numInputs + k])],
                               layer.numUnits),
                    ActivateDerivative(model[l].activation,
                                       PreActivations(model, sample, l)[k]))]

\* computeGradients: both accumulations sit in the body of the loop over k
\* (lines 152-157), so a bias entry receives delta[j] * batchNorm once per
\* input of its layer.
computeGradients(model, inputsBatch, targetsBatch) ==
  LET batchSize == Len(inputsBatch)
      batchNorm == RDiv(One, Rat(batchSize, 1))
  IN [l \in 1..Len(model) |->
        LET layer == model[l]
            delta == [s \in 1..batchSize |->
                        Delta(model, inputsBatch[s], targetsBatch[s], l)]
            layerInput == [s \in 1..batchSize |-> LayerInput(model, inputsBatch[s], l)]
        IN [weightGrads |->
              [n \in 0..(layer.numUnits * layer.numInputs - 1) |->
                 Accumulate(Zero,
                            [s \in 0..(batchSize - 1) |->
                               RMul(RMul(delta[s + 1][n \div layer.numInputs],
                                         layerInput[s + 1][n % layer.numInputs]),
                                    batchNorm)],
                            batchSize)],
            biasGrads |->
              [j \in 0..(layer.numUnits - 1) |->
                 Accumulate(Zero,
                            [s \in 0..(batchSize - 1) |->
                               Accumulate(Zero,
                                          [k \in 0..(layer.numInputs - 1) |->
                                             RMul(delta[s + 1][j], batchNorm)],
                                          layer.numInputs)],
                            batchSize)]]]

\* trainCPU, lines 248-249
HostInputs(data) == [s \in 1..Len(data) |-> [k \in 0..1 |-> IF k = 0 THEN data[s].x ELSE data[s].y]]
HostTargets(data) == [s \in 1..Len(data) |-> [j \in 0..0 |-> Rat(data[s].class, 1)]]

\* A host model with the topology and the parameters of the device network:
\* the weight from input k to unit j, which the device keeps at k * numUnits + j.
SameTopologyModel(b) ==
  <<[numInputs |-> INPUT_SIZE, numUnits |-> HIDDEN_SIZE,
     weights |-> [n \in 0..(INPUT_SIZE * HIDDEN_SIZE - 1) |->
                    b.weights1[(n % INPUT_SIZE) * HIDDEN_SIZE + (n \div INPUT_SIZE)]],
     bias |-> b.bias1, activation |-> "relu"],
    [numInputs |-> HIDDEN_SIZE, numUnits |-> OUTPUT_SIZE,
     weights |-> [n \in 0..(HIDDEN_SIZE * OUTPUT_SIZE - 1) |->
                    b.weights2[(n % HIDDEN_SIZE) * OUTPUT_SIZE + (n \div HIDDEN_SIZE)]],
     bias |-> b.bias2, activation |-> "sigmoid"]>>

\* The buffer elements an invocation loads (arrayLength is not a load of an
\* element), as <<buffer, index>>.
forward_reads(idx) ==
  LET batch_size == Length(buffers.input) \div INPUT_SIZE
  IN IF idx >= batch_size THEN {}
     ELSE {<<"bias2", 0>>}
          \cup {<<"bias1", h>> : h \in 0..(HIDDEN_SIZE - 1)}
          \cup {<<"input", idx * INPUT_SIZE + i>> : i \in 0..(INPUT_SIZE - 1)}
          \cup {<<"weights1", i * HIDDEN_SIZE + h>> :
                  i \in 0..(INPUT_SIZE - 1), h \in 0..(HIDDEN_SIZE - 1)}
          \cup {<<"weights2", h>> : h \in 0..(HIDDEN_SIZE - 1)}

\* (a variant whose hidden-layer loop loads the deltas back from the first
\* slice of grad_bias1 instead of the local array)
compute_gradients_reads_stored_deltas(idx) ==
  LET batch_size == Length(buffers.input) \div INPUT_SIZE
  IN IF idx >= batch_size THEN {}
     ELSE {<<"output", idx>>, <<"target_val", idx>>}
          \cup {<<"weights2", h>> : h \in 0..(HIDDEN_SIZE - 1)}
          \cup {<<"pre_activation", PreActivationOffset(idx) + h>> :
                  h \in 0..(HIDDEN_SIZE - 1)}
          \cup {<<"input", idx * INPUT_SIZE + i>> : i \in 0..(INPUT_SIZE - 1)}
          \cup {<<"grad_bias1", h>> : h \in 0..(HIDDEN_SIZE - 1)}
compute_gradients_reads(idx) ==
  LET batch_size == Length(buffers.input) \div INPUT_SIZE
  IN IF idx >= batch_size THEN {}
     ELSE {<<"output", idx>>, <<"target_val", idx>>}
          \cup {<<"weights2", h>> : h \in 0..(HIDDEN_SIZE - 1)}
          \cup {<<"pre_activation", PreActivationOffset(idx) + h>> :
                  h \in 0..(HIDDEN_SIZE - 1)}
          \cup {<<"input", idx * INPUT_SIZE + i>> : i \in 0..(INPUT_SIZE - 1)}

update_weights_reads(param_idx) ==
  LET batch_size == Length(buffers.grad_bias2)
      total_weights1 == INPUT_SIZE * HIDDEN_SIZE
      bias1_idx == param_idx - total_weights1
      weights2_idx == bias1_idx - HIDDEN_SIZE
      bias2_idx == weights2_idx - HIDDEN_SIZE
      Loads(name, grad, stride, i) ==
        {<<name, i>>} \cup {<<grad, b * stride + i>> : b \in 0..(batch_size - 1)}
  IN IF param_idx < total_weights1
       THEN Loads("weights1", "grad_weights1", total_weights1, param_idx)
     ELSE IF bias1_idx < HIDDEN_SIZE
       THEN Loads("bias1", "grad_bias1", HIDDEN_SIZE, bias1_idx)
     ELSE IF weights2_idx < HIDDEN_SIZE
       THEN Loads("weights2", "grad_weights2", HIDDEN_SIZE, weights2_idx)
     ELSE IF bias2_idx = 0
       THEN Loads("bias2", "grad_bias2", 1, 0)
     ELSE {}

\* Math.round: the nearest integer, a half rounded up
MathRound(x) == (2 * x[1] + x[2]) \div (2 * x[2])

\* calculateLoss (device path) and calculateMetrics (host): the accuracy in
\* percent.  The loss of both is a sum of logarithms and is left out.
calculateLoss(outputData, targets) ==
  LET numSamples == Length(outputData)
      correct == Cardinality({i \in 0..(numSamples - 1) :
                                Rat(MathRound(outputData[i]), 1) = targets[i]})
  IN [accuracy |-> RMul(Rat(correct, numSamples), Rat(100, 1))]

calculateMetrics(model, inputs, targets) ==
  LET outputs == [s \in 1..Len(inputs) |-> forwardPass(model, inputs[s])]
      predictedClass(s) == IF RLess(Rat(1, 2), outputs[s][0]) THEN 1 ELSE 0
      targetClass(s) == IF RLess(Rat(1, 2), targets[s][0]) THEN 1 ELSE 0
      correct == Cardinality({s \in 1..Len(outputs) : predictedClass(s) = targetClass(s)})
  IN [accuracy |-> RMul(Rat(correct, Len(outputs)), Rat(100, 1))]

\* ------------------------------------------------------------------------
\* A training step: the host computes its gradients for the batch, then the
\* device runs its three passes on the same parameters and batch.  The
\* invocations of a pass run in any order; a pass starts when the one before
\* it has finished.  The next step starts from the parameters the update pass
\* left.

KernelBatches ==
  { <<Point(Rat(1, 1), Rat(1, 2), 1)>>,
    <<Point(Rat(1, 1), Rat(0 - 1, 2), 0), Point(Rat(0 - 1, 1), Rat(1, 1), 1)>>,
    <<Point(Rat(1, 2), Rat(1, 1), 1), Point(Rat(0 - 1, 1), Rat(0 - 1, 2), 0),
      Point(Rat(0, 1), Rat(1, 1), 0)>> }
KernelSeeds == {0}
\* the epochs of a kernel run: the loop of trainModel, cut after the second
KernelEpochs == {0, 1}
KernelWeights == {initializeWeights(s) : s \in KernelSeeds}

KInit ==
  /\ gpu = "present"
  /\ loaded = TRUE
  /\ attached = TRUE
  /\ trainBtnDisabled = TRUE
  /\ stopBtnDisabled = FALSE
  /\ status = "training_started"
  /\ trainingData \in KernelBatches
  /\ currentClass = 0
  /\ isTraining = TRUE
  /\ device = "defined"
  /\ lossHistory = <<>>
  /\ cpuModel = 0
  /\ pc = "kernel"
  /\ mode = "gpu"
  /\ run = 1
  /\ epoch = 0
  /\ batch = trainingData
  /\ params = <<>>
  /\ paramsRun = 1
  /\ upd = 0
  /\ lastVisualizeEpoch = 0
  /\ gpuQueue = <<>>
  /\ outputStamp = 0
  /\ readStamp = 0
  /\ flagSet = FALSE
  /\ startData = trainingData
  /\ stopSeenAt = -1
  /\ exitKind = "none"
  /\ epochsRun = 0
  /\ failedAt = -1
  /\ kStage = "host"
  /\ pending = {}
  /\ \E weights \in KernelWeights :
       buffers = createBuffers(prepareTrainingData(trainingData).inputs,
                               prepareTrainingData(trainingData).targets, weights)
  /\ initialBuffers = buffers
  /\ hostGradients = <<>>
  /\ kEpoch = 0
  /\ invoked = {}
  /\ writeLog = {}

BatchSize == Length(buffers.target_val)

\* dispatchWorkgroups of the three passes, with workgroup_size(1)
Dispatched(stage) ==
  IF stage \in {"forward", "gradient"} THEN 0..(BatchSize - 1)
  ELSE IF stage = "update" THEN 0..(UpdateDispatchCount - 1)
  ELSE {}

\* (a variant that encodes the gradient pass before the forward pass)
NextStageGradientFirst(stage) ==
  IF stage = "host" THEN "gradient"
  ELSE IF stage = "gradient" THEN "forward"
  ELSE IF stage = "forward" THEN "update"
  ELSE "done"

NextStage(stage) ==
  IF stage = "host" THEN "forward"
  ELSE IF stage = "forward" THEN "gradient"
  ELSE IF stage = "gradient" THEN "update"
  ELSE "done"

HostComputeGradients ==
  /\ kStage = "host"
  /\ hostGradients' = computeGradients(SameTopologyModel(buffers),
                                       HostInputs(trainingData), HostTargets(trainingData))
  /\ kStage' = NextStage(kStage)
  /\ pending' = Dispatched(kStage')
  /\ UNCHANGED <<buffers, initialBuffers, kEpoch, invoked, writeLog>>
  /\ UNCHANGED driverVars

\* The stores of one invocation; a store outside its buffer is dropped.
Store(stores) ==
  [name \in DOMAIN buffers |->
     [i \in DOMAIN buffers[name] |->
        IF \E w \in stores : w[1] = name /\ w[2] = i
          THEN (CHOOSE w \in stores : w[1] = name /\ w[2] = i)[3]
          ELSE buffers[name][i]]]

Invocation(stage, id, stores) ==
  /\ kStage = stage
  /\ id \in pending
  /\ pending' = pending \ {id}
  /\ buffers' = Store(stores)
  /\ writeLog' = writeLog \cup
       {[stage |-> stage, id |-> id, buf |-> w[1], index |-> w[2]] : w \in stores}
  /\ invoked' = invoked \cup {<<kEpoch, stage, id>>}
  /\ UNCHANGED <<kStage, initialBuffers, hostGradients, kEpoch>>
  /\ UNCHANGED driverVars

ForwardInvocation == \E idx \in pending : Invocation("forward", idx, forward(idx))
GradientInvocation == \E idx \in pending : Invocation("gradient", idx, compute_gradients(idx))
UpdateInvocation == \E id \in pending : Invocation("update", id, update_weights(id))

\* End of a compute pass: the next pass of the command buffer starts.  After
\* the update pass the step is over; the next epoch starts from the parameters
\* it left, with a new write log.
EndPass ==
  /\ kStage \in {"forward", "gradient", "update"}
  /\ pending = {}
  /\ IF kStage = "update" /\ kEpoch + 1 \in KernelEpochs
       THEN /\ kStage' = "host"
            /\ kEpoch' = kEpoch + 1
            /\ pending' = {}
            /\ initialBuffers' = buffers
            /\ writeLog' = {}
       ELSE /\ kStage' = NextStage(kStage)
            /\ pending' = Dispatched(kStage')
            /\ UNCHANGED <<kEpoch, initialBuffers, writeLog>>
  /\ UNCHANGED <<buffers, hostGradients, invoked>>
  /\ UNCHANGED driverVars

KNext ==
  \/ HostComputeGradients
  \/ ForwardInvocation \/ GradientInvocation \/ UpdateInvocation
  \/ EndPass

SpecKernel == KInit /\ [][KNext]_vars

\* ------------------------------------------------------------------------
\* Properties of the page (checked under Spec)

RunEnds == pc # "idle" /\ pc' = "idle"
LoopPcs == {"cpu_top", "cpu_update", "cpu_metrics", "cpu_yield", "cpu_ret",
            "gpu_top", "gpu_map", "gpu_viz", "gpu_yield", "gpu_done"}
CeilDiv(a, b) == (a + b - 1) \div b

\* C1: a start request with fewer than 2 samples only reports the validation
\* error: the running flag, the loss history, the parameters, both controls, the
\* position of trainModel and the epoch counters are left as they were; a start
\* request with exactly 2 samples is accepted and the run is Running.
C1_StartValidation ==
  [][ /\ (TrainClick /\ Len(trainingData) < MinSamples)
           => /\ status' = "validation_error"
              /\ ~isTraining /\ ~isTraining'
              /\ UNCHANGED <<lossHistory, params, paramsRun, trainBtnDisabled,
                             stopBtnDisabled, pc, run, epoch, epochsRun, gpuQueue>>
      /\ (TrainClick /\ Len(trainingData) = MinSamples)
           => /\ isTraining'
              /\ pc' # "idle"
              /\ run' = run + 1 ]_vars

\* a start request was rejected although an earlier run had left a loss history
C1_Witness ==
  /\ status = "validation_error"
  /\ Len(trainingData) < MinSamples
  /\ lossHistory # <<>>
  /\ pc = "idle"

\* C2: once the loop has seen the cancellation flag with k epochs executed, no
\* step of epoch k or of any later epoch runs, and the loss history holds at most
\* ceil(k/10) entries.
C2_CancelStopsLoop ==
  stopSeenAt >= 0 =>
    /\ epochsRun <= stopSeenAt
    /\ Len(lossHistory) <= CeilDiv(stopSeenAt, MetricInterval)

\* the flag was seen after epochs 0..30 and the history holds epochs 0,10,20,30
C2_Witness ==
  /\ stopSeenAt = 3 * MetricInterval + 1
  /\ Len(lossHistory) = 4
  /\ pc = "idle"

\* C3: when a run ends, "Training completed!" is reported exactly if the loop
\* ended at the epoch limit and the cancellation flag was never set; a run whose
\* every epoch ran and that nobody cancelled is reported completed.
C3_CompletedIffLimitAndNoCancel ==
  [][ RunEnds =>
        /\ (status' = "completed") <=> (exitKind' = "limit" /\ ~flagSet')
        /\ (epochsRun' = MaxEpochs /\ ~flagSet') => status' = "completed" ]_vars

C3_Witness ==
  /\ pc = "idle"
  /\ status = "completed"
  /\ exitKind = "limit"
  /\ epochsRun = MaxEpochs

DeviceInitFailed ==
  /\ loaded
  /\ pc = "idle"
  /\ \/ gpu = "none"
     \/ (exitKind = "error" /\ mode = "gpu" /\ device = "undefined")
C5_HostUsableAfterInitFailure ==
  DeviceInitFailed => (attached /\ ~trainBtnDisabled)

\* C6: a run starts its loop on parameters made for it, none of them updated, and
\* with an empty loss history; while it runs, every parameter and every loss
\* entry is its own.
C6_FreshRun ==
  /\ (pc \in {"cpu_top", "gpu_top"} /\ epochsRun = 0 /\ epoch = 0)
       => /\ lossHistory = <<>>
          /\ \A p \in DOMAIN params : params[p] = 0
  /\ pc \in LoopPcs
       => /\ paramsRun = run
          /\ DOMAIN params = IF mode = "cpu" THEN HostParamIds ELSE DeviceParamIds
          /\ \A i \in 1..Len(lossHistory) : lossHistory[i].run = run

\* a second run is at its first loop head after a host run that had completed
C6_Witness ==
  /\ run = 2
  /\ pc \in {"cpu_top", "gpu_top"}
  /\ epochsRun = 0
  /\ cpuModel = 1
  /\ isTraining

\* C7: whoever reads the parameters outside an update step (the host loop head,
\* metrics and callback, a handler running during an await, a forward, gradient
\* or visualisation stage of the device) finds every parameter with the same
\* number of update steps applied.
HostObserves == pc \in {"cpu_top", "cpu_metrics", "cpu_yield", "cpu_ret"}
DeviceObserves ==
  /\ gpuQueue # <<>>
  /\ Head(gpuQueue).run = paramsRun
  /\ Head(gpuQueue).kind \in {"forward", "gradient", "visualize"}
C7_NoTornParameters ==
  (HostObserves \/ DeviceObserves \/ CanRunHandler) => Uniform(params)

\* the callback of a host run observes the parameters after 11 whole steps
C7_Witness ==
  /\ pc = "cpu_metrics"
  /\ epoch = MetricInterval
  /\ \A p \in DOMAIN params : params[p] = epoch + 1

\* ------------------------------------------------------------------------
\* The numeric kernels (specification SpecKernel)

GradientsDone == kStage \in {"update", "done"}
ParameterBuffers == {"weights1", "bias1", "weights2", "bias2"}
GradientBuffer ==
  [weights1 |-> "grad_weights1", bias1 |-> "grad_bias1",
   weights2 |-> "grad_weights2", bias2 |-> "grad_bias2"]
ParameterIndices ==
  {<<name, i>> : name \in ParameterBuffers, i \in 0..(HIDDEN_SIZE * INPUT_SIZE)}
    \cap {q \in ParameterBuffers \X Nat : q[2] \in DOMAIN initialBuffers[q[1]]}

\* sum over the samples of the per-sample gradient entries of parameter q
DeviceGradientSum(q) ==
  LET slice == Length(initialBuffers[q[1]])
  IN Accumulate(Zero,
                [b \in 0..(BatchSize - 1) |->
                   buffers[GradientBuffer[q[1]]][b * slice + q[2]]],
                BatchSize)
DeviceMeanGradient(q) == RDiv(DeviceGradientSum(q), Rat(BatchSize, 1))

\* the host's accumulated gradient of the same parameter: layer 1 unit h
\* input i for weights1[i * HIDDEN_SIZE + h], layer 2 unit 0 input h for
\* weights2[h]
HostGradient(q) ==
  IF q[1] = "weights1"
    THEN hostGradients[1].weightGrads[(q[2] % HIDDEN_SIZE) * INPUT_SIZE
                                       + (q[2] \div HIDDEN_SIZE)]
  ELSE IF q[1] = "bias1" THEN hostGradients[1].biasGrads[q[2]]
  ELSE IF q[1] = "weights2" THEN hostGradients[2].weightGrads[q[2]]
  ELSE hostGradients[2].biasGrads[q[2]]

WeightGradientsAgree ==
  \A q \in ParameterIndices :
    q[1] \in {"weights1", "weights2"} => DeviceMeanGradient(q) = HostGradient(q)
BiasGradientsAgree ==
  \A q \in ParameterIndices :
    q[1] \in {"bias1", "bias2"} => DeviceMeanGradient(q) = HostGradient(q)

\* C8: reduction correctness.  Once the gradient pass has finished, for every
\* weight and every bias of both layers the sum over the samples of the
\* device's per-sample gradient entries, divided by batchSize, equals the
\* gradient the host's computeGradients accumulated for the same parameters
\* and the same batch.
C8_ReductionMatchesHost ==
  GradientsDone => (WeightGradientsAgree /\ BiasGradientsAgree)

\* ------------------------------------------------------------------------
UpdateTarget(id) == {<<w[1], w[2]>> : w \in update_weights(id)}
UpdateWriters(q) ==
  {r.id : r \in {w \in writeLog : w.stage = "update" /\ w.buf = q[1] /\ w.index = q[2]}}
UpdatedValue(q) ==
  RSub(initialBuffers[q[1]][q[2]],
       RDiv(RMul(LEARNING_RATE, DeviceGradientSum(q)), Rat(BatchSize, 1)))

\* C9: in the update pass dispatched with (INPUT_SIZE+2)*HIDDEN_SIZE+1
\* invocations, every invocation updates exactly one parameter, no two
\* invocations update the same one and every entry of weights1, bias1,
\* weights2 and bias2 has its invocation; a parameter holds its old value
\* until its invocation has run and old - LEARNING_RATE * (sum over the
\* samples of its own gradient entries) / batchSize afterwards, and when the
\* pass has finished every parameter has been written exactly once.
C9_UpdateOncePerParameter ==
  GradientsDone =>
    LET target == [id \in Dispatched("update") |-> UpdateTarget(id)]
    IN /\ \A id \in DOMAIN target : Cardinality(target[id]) = 1
       /\ \A a \in DOMAIN target, b \in DOMAIN target : a # b => target[a] # target[b]
       /\ UNION {target[id] : id \in DOMAIN target} = ParameterIndices
       /\ \A q \in ParameterIndices :
            LET writers == UpdateWriters(q)
            IN /\ Cardinality(writers) <= 1
               /\ kStage = "done" => Cardinality(writers) = 1
               /\ buffers[q[1]][q[2]] = IF writers = {}
                                          THEN initialBuffers[q[1]][q[2]]
                                          ELSE UpdatedValue(q)

C9_Witness ==
  /\ kStage = "done"
  /\ BatchSize = 3
  /\ \A name \in ParameterBuffers :
       \E i \in DOMAIN buffers[name] : buffers[name][i] # initialBuffers[name][i]

\* ------------------------------------------------------------------------
StageOrder == [host |-> 0, forward |-> 1, gradient |-> 2, update |-> 3, done |-> 4]
\* the invocations of a pass that have run
Ran(stage) ==
  IF StageOrder[kStage] > StageOrder[stage] THEN Dispatched(stage)
  ELSE IF kStage = stage THEN Dispatched(stage) \ pending
  ELSE {}
WritesOf(stage, id) ==
  {<<r.buf, r.index>> : r \in {w \in writeLog : w.stage = stage /\ w.id = id}}
Slice(name, idx, size) == {<<name, i>> : i \in (idx * size)..(idx * size + size - 1)}

\* C10: in every pass the index sets written by different invocations are
\* disjoint and inside the allocated buffers.  Forward invocation idx writes
\* exactly pre_activation[idx*(HIDDEN_SIZE+1) .. idx*(HIDDEN_SIZE+1)+HIDDEN_SIZE]
\* and output[idx]; gradient invocation idx writes exactly its own slice of
\* grad_weights1, grad_bias1 and grad_weights2 and grad_bias2[idx]; an update
\* invocation writes one parameter; every buffer has batchSize slices.
C10_DisjointWritesInBounds ==
  kStage # "off" =>
  /\ Cardinality(writeLog)
       = Cardinality({<<r.stage, r.buf, r.index>> : r \in writeLog})
  /\ \A r \in writeLog : r.index \in DOMAIN buffers[r.buf]
  /\ \A idx \in Ran("forward") :
       WritesOf("forward", idx)
         = Slice("pre_activation", idx, HIDDEN_SIZE + 1) \cup {<<"output", idx>>}
  /\ \A idx \in Ran("gradient") :
       WritesOf("gradient", idx)
         = Slice("grad_weights1", idx, INPUT_SIZE * HIDDEN_SIZE)
             \cup Slice("grad_bias1", idx, HIDDEN_SIZE)
             \cup Slice("grad_weights2", idx, HIDDEN_SIZE)
             \cup {<<"grad_bias2", idx>>}
  /\ \A id \in Ran("update") :
       /\ Cardinality(WritesOf("update", id)) = 1
       /\ WritesOf("update", id) \subseteq ParameterIndices
  /\ Length(buffers.pre_activation) = BatchSize * (HIDDEN_SIZE + 1)
  /\ Length(buffers.output) = BatchSize
  /\ Length(buffers.grad_weights1) = BatchSize * INPUT_SIZE * HIDDEN_SIZE
  /\ Length(buffers.grad_bias1) = BatchSize * HIDDEN_SIZE
  /\ Length(buffers.grad_weights2) = BatchSize * HIDDEN_SIZE
  /\ Length(buffers.grad_bias2) = BatchSize

C10_Witness ==
  /\ kStage = "update"
  /\ BatchSize = 3
  /\ Cardinality(pending) = 1
  /\ \E r \in writeLog :
       r.stage = "gradient" /\ r.id = BatchSize - 1 /\ r.buf = "grad_weights1"
         /\ r.index = BatchSize * INPUT_SIZE * HIDDEN_SIZE - 1

\* ------------------------------------------------------------------------
DevicePasses == {"forward", "gradient", "update"}
\* pass s of epoch e comes before the pass and epoch of invocation r
PassBefore(e, s, r) ==
  e < r[1] \/ (e = r[1] /\ StageOrder[s] < StageOrder[r[2]])

\* C11: in every epoch the passes run in the order forward, gradient, update
\* with a barrier between them: when an invocation starts, every invocation of
\* every earlier pass of its epoch and of every pass of the earlier epochs has
\* run and stored its results, whatever the order of invocations in a pass.
C11_PassesInOrder ==
  [][\A r \in invoked' \ invoked :
       \A e \in KernelEpochs, s \in DevicePasses :
         PassBefore(e, s, r) =>
           \A id \in Dispatched(s) :
             /\ <<e, s, id>> \in invoked
             /\ e = r[1] => \E w \in writeLog : w.stage = s /\ w.id = id]_vars
C11_Witness ==
  /\ \E r \in invoked : r[1] = 1 /\ r[2] = "update"
  /\ \E r \in invoked : r[1] = 1 /\ r[2] = "gradient"
  /\ BatchSize > 1

\* ------------------------------------------------------------------------
\* the forward pass of the current epoch has finished: `output` holds the
\* predictions for the parameters the epoch started with
OutputsReady == kStage \in {"gradient", "update", "done"}

\* C12: the host's calculateMetrics and the device path's calculateLoss give
\* the same accuracy for the same parameters and samples; they classify every
\* prediction alike, a prediction of exactly 1/2 included.
C12_SameAccuracy ==
  OutputsReady =>
    calculateLoss(buffers.output, buffers.target_val).accuracy
      = calculateMetrics(SameTopologyModel(initialBuffers),
                         HostInputs(trainingData), HostTargets(trainingData)).accuracy

\* ------------------------------------------------------------------------
\* a step of the updater: a layer of updateWeights, or the update pass
UpdaterStep ==
  \/ pc = "cpu_update" /\ upd' = upd + 1
  \/ gpuQueue # <<>> /\ Head(gpuQueue).kind = "update" /\ gpuQueue' = Tail(gpuQueue)
\* createModel / initializeWeights at the start of a run
NewParameters == paramsRun' # paramsRun

\* C13: parameters are changed only by the updater.  Forward evaluation,
\* gradient and metric computation, visualisation, the progress callback and
\* the stop, clear, generate and add-point handlers leave every weight and bias
\* as it is; the only other change is a new run's new parameter set.
C13_OnlyUpdaterMutates ==
  [][params' # params => UpdaterStep \/ NewParameters]_vars
C13_Witness ==
  /\ pc \in AwaitPcs
  /\ \E p \in DOMAIN params : params[p] > 0
  /\ Len(lossHistory) > 1
  /\ flagSet
  /\ trainingData # batch

\* ------------------------------------------------------------------------
\* a step of a loop head that evaluates the cancellation predicate
LoopHeadPolls ==
  /\ pc \in {"cpu_top", "gpu_top"}
  /\ epoch < MaxEpochs
  /\ pc' # pc \/ epochsRun' # epochsRun
\* epoch e is reached by resuming from the yield of a metric epoch
FollowsYield(e) == e > 0 /\ (e - 1) % MetricInterval = 0

\* C14 (as stated): the cancellation predicate is read only on resumption
\* after the yield of a metric epoch, never before an epoch that does not
\* follow a yield (the read before the first epoch of a run set aside).
C14_PolledOnlyAfterYield ==
  [][LoopHeadPolls => epoch = 0 \/ FollowsYield(epoch)]_vars

\* C14 (amended): the predicate is read at the head of every epoch, and a read
\* that finds it set ends the loop; but the flag changes during a run only
\* while the driver is suspended, so the read that first finds it set is the
\* first read of the run or the read on resumption after the yield of a
\* metric epoch.
C14_CancelSeenOnlyAfterYield ==
  [][/\ (LoopHeadPolls /\ ~isTraining) => pc' \in {"cpu_ret", "gpu_done"}
     /\ (isTraining' # isTraining /\ pc # "idle" /\ pc' # "idle") => pc \in AwaitPcs
     /\ (stopSeenAt' # stopSeenAt /\ stopSeenAt' >= 0) =>
          stopSeenAt' = 0 \/ FollowsYield(stopSeenAt')]_vars
C14_Witness ==
  /\ stopSeenAt > 1
  /\ exitKind = "cancel"
  /\ epochsRun = stopSeenAt

\* ------------------------------------------------------------------------
\* the host's gradients of this epoch have been computed
HostGradientsDone == kStage \in {"forward", "gradient", "update", "done"}
HostModel == SameTopologyModel(initialBuffers)
\* (1/batchSize) * the sum over the samples of term(s)
BatchMean(term(_)) ==
  LET batchSize == Len(trainingData)
  IN RDiv(Accumulate(Zero, [s \in 0..(batchSize - 1) |-> term(s + 1)], batchSize),
          Rat(batchSize, 1))
SampleDelta(s, l) ==
  Delta(HostModel, HostInputs(trainingData)[s], HostTargets(trainingData)[s], l)
SampleLayerInput(s, l) == LayerInput(HostModel, HostInputs(trainingData)[s], l)
HostWeightGradsAsStated ==
  \A l \in 1..Len(HostModel) :
    \A j \in 0..(HostModel[l].numUnits - 1), k \in 0..(HostModel[l].numInputs - 1) :
      LET term(s) == RMul(SampleDelta(s, l)[j], SampleLayerInput(s, l)[k])
      IN hostGradients[l].weightGrads[j * HostModel[l].numInputs + k] = BatchMean(term)
HostBiasGradsAsStated ==
  \A l \in 1..Len(HostModel) :
    \A j \in 0..(HostModel[l].numUnits - 1) :
      LET term(s) == SampleDelta(s, l)[j]
      IN hostGradients[l].biasGrads[j] = BatchMean(term)

\* C15: the host's computeGradients returns, for every layer and unit j,
\* biasGrads[j] = (1/batchSize) * sum over the samples of delta[j], each
\* sample counted once whatever the layer's numInputs, and weightGrads[j,k] =
\* (1/batchSize) * sum over the samples of delta[j] * layerInput[k].
C15_HostGradientFormulas ==
  HostGradientsDone => (HostWeightGradsAsStated /\ HostBiasGradsAsStated)

\* ------------------------------------------------------------------------
YieldPcs == {"cpu_yield", "gpu_yield"}
\* the pcs between the metric work of an epoch and the end of its yield
AfterMetricsPcs == YieldPcs \cup {"gpu_viz"}
\* the reported epochs in the history are multiples of 10, in increasing order
ProgressEpochsInOrder ==
  \A i \in 1..Len(lossHistory) :
    /\ lossHistory[i].epoch % MetricInterval = 0
    /\ \A j \in 1..(i - 1) : lossHistory[j].epoch < lossHistory[i].epoch
\* the run appends a loss to the history
AppendsLoss == lossHistory' # lossHistory /\ lossHistory' # <<>>
\* the run goes on to the next epoch
EpochAdvances == epoch' = epoch + 1

\* C16: metric work is done exactly on the epochs divisible by 10.  Such an
\* epoch appends one loss, reported with its epoch number, and then yields
\* before the next epoch; any other epoch appends nothing and does not yield.
\* The reported epochs are 0, 10, 20, ... in increasing order.
C16_MetricsEveryTenth ==
  [][/\ AppendsLoss =>
          /\ epoch % MetricInterval = 0
          /\ pc \in {"cpu_metrics", "gpu_map"}
          /\ lossHistory' = Append(lossHistory, lossHistory'[Len(lossHistory')])
          /\ lossHistory'[Len(lossHistory')].epoch = epoch
          /\ lossHistory'[Len(lossHistory')].run = run
          /\ pc' \in AfterMetricsPcs
          /\ epoch' = epoch
     /\ (pc' \in AfterMetricsPcs /\ pc \notin AfterMetricsPcs) => AppendsLoss
     /\ EpochAdvances => ((pc \in YieldPcs) = (epoch % MetricInterval = 0))
     /\ ProgressEpochsInOrder']_vars
C16_Witness ==
  /\ Len(lossHistory) = 3
  /\ epoch % MetricInterval = 5
  /\ pc \in {"cpu_top", "gpu_top"}

\* ------------------------------------------------------------------------
Inputs == 0..(INPUT_SIZE - 1)
Hidden == 0..(HIDDEN_SIZE - 1)

\* the gradient entries of sample idx follow the closed form with p - y
ClosedFormGradient(idx) ==
  LET d == RSub(buffers.output[idx], buffers.target_val[idx])
      pre(h) == buffers.pre_activation[idx * (HIDDEN_SIZE + 1) + h]
      gb1(h) == buffers.grad_bias1[idx * HIDDEN_SIZE + h]
  IN /\ buffers.grad_bias2[idx] = d
     /\ \A h \in Hidden :
          /\ buffers.grad_weights2[idx * HIDDEN_SIZE + h] = RMul(relu(pre(h)), d)
          /\ gb1(h) = RMul(RMul(d, initialBuffers.weights2[h]), relu_derivative(pre(h)))
          /\ \A i \in Inputs :
               buffers.grad_weights1[idx * INPUT_SIZE * HIDDEN_SIZE + i * HIDDEN_SIZE + h]
                 = RMul(gb1(h), buffers.input[idx * INPUT_SIZE + i])

\* the entries are the sample's gradient of the loss, as the chain rule of the
\* host gives it for the network whose weight from input i to hidden unit h is
\* the one the forward pass reads at weights1[i * HIDDEN_SIZE + h]
LossGradient(idx) ==
  LET s == idx + 1
  IN /\ buffers.grad_bias2[idx] = SampleDelta(s, 2)[0]
     /\ \A h \in Hidden :
          /\ buffers.grad_weights2[idx * HIDDEN_SIZE + h]
               = RMul(SampleDelta(s, 2)[0], SampleLayerInput(s, 2)[h])
          /\ buffers.grad_bias1[idx * HIDDEN_SIZE + h] = SampleDelta(s, 1)[h]
          /\ \A i \in Inputs :
               buffers.grad_weights1[idx * INPUT_SIZE * HIDDEN_SIZE + i * HIDDEN_SIZE + h]
                 = RMul(SampleDelta(s, 1)[h], SampleLayerInput(s, 1)[i])

\* after the update pass the weight at weights1[i * HIDDEN_SIZE + h] has moved
\* by the mean gradient of the weight from input i to hidden unit h
SameLayoutInUpdate ==
  \A i \in Inputs, h \in Hidden :
    LET term(s) == RMul(SampleDelta(s, 1)[h], SampleLayerInput(s, 1)[i])
    IN buffers.weights1[i * HIDDEN_SIZE + h]
         = RSub(initialBuffers.weights1[i * HIDDEN_SIZE + h],
                RMul(LEARNING_RATE, BatchMean(term)))

\* C17: the gradient invocation of sample idx stores that sample's
\* un-normalised gradient of the loss for every parameter, in the closed form
\* with delta_out = p - y, and stores a weights1 gradient under the index
\* i * HIDDEN_SIZE + h under which the forward pass reads and the update pass
\* updates that weight.
C17_PerSampleGradient ==
  /\ GradientsDone =>
       \A idx \in 0..(BatchSize - 1) : ClosedFormGradient(idx) /\ LossGradient(idx)
  /\ (kStage = "done" \/ (kStage = "update" /\ pending = {})) => SameLayoutInUpdate
C17_Witness ==
  /\ kStage = "done"
  /\ BatchSize > 1
  /\ \E i \in Inputs, h \in Hidden :
       /\ buffers.weights1[i * HIDDEN_SIZE + h] # initialBuffers.weights1[i * HIDDEN_SIZE + h]
       /\ buffers.weights1[i * HIDDEN_SIZE + h] # initialBuffers.weights1[h * INPUT_SIZE + i]
       /\ \E idx \in 0..(BatchSize - 1) :
            buffers.grad_weights1[idx * INPUT_SIZE * HIDDEN_SIZE + i * HIDDEN_SIZE + h]
              # buffers.grad_weights1[idx * INPUT_SIZE * HIDDEN_SIZE + h * INPUT_SIZE + i]

\* ------------------------------------------------------------------------
ReadsOf(stage, id) ==
  IF stage = "forward" THEN forward_reads(id)
  ELSE IF stage = "gradient" THEN compute_gradients_reads(id)
  ELSE update_weights_reads(id)
BuffersOf(accesses) == {a[1] : a \in accesses}
GradientBuffers == {"grad_weights1", "grad_bias1", "grad_weights2", "grad_bias2"}
StageWrites(stage) == UNION {WritesOf(stage, id) : id \in Ran(stage)}
StageReads(stage) == UNION {ReadsOf(stage, id) : id \in Dispatched(stage)}

\* C18: in no pass does an invocation read a buffer element that another
\* invocation of the same pass writes.  The forward pass writes only
\* pre_activation and output and reads only input and parameters; the gradient
\* pass reads only input, its own pre_activation/output slice, targets and
\* weights2, and writes only gradient buffers; the update pass reads only
\* gradient buffers and the one parameter it writes.
C18_NoReadOfAnothersWrite ==
  kStage # "off" =>
  /\ \A stage \in DevicePasses :
       \A a \in Ran(stage), b \in Dispatched(stage) :
         a # b => WritesOf(stage, a) \cap ReadsOf(stage, b) = {}
  /\ BuffersOf(StageWrites("forward")) \subseteq {"pre_activation", "output"}
  /\ BuffersOf(StageReads("forward")) \subseteq {"input"} \cup ParameterBuffers
  /\ BuffersOf(StageWrites("gradient")) \subseteq GradientBuffers
  /\ \A idx \in Dispatched("gradient") :
       ReadsOf("gradient", idx)
         \subseteq Slice("input", idx, INPUT_SIZE)
                      \cup Slice("pre_activation", idx, HIDDEN_SIZE + 1)
                      \cup {<<"output", idx>>, <<"target_val", idx>>}
                      \cup {<<"weights2", h>> : h \in Hidden}
  /\ \A id \in Ran("update") :
       /\ BuffersOf(ReadsOf("update", id) \ WritesOf("update", id)) \subseteq GradientBuffers
       /\ Cardinality(WritesOf("update", id)) = 1
       /\ WritesOf("update", id) \subseteq ReadsOf("update", id)
C18_Witness ==
  /\ kStage = "update"
  /\ BatchSize > 1
  /\ Cardinality(Ran("update")) > 1
  /\ pending # {}

\* ------------------------------------------------------------------------
\* C19: every step of a run (forward, gradient, update, metrics) works on the
\* same batch, the dataset as it was when the run was started; a point added,
\* a clear or a generated dataset during a suspension of the run changes
\* nothing of what the later steps of that run use.
C19_BatchIsDatasetAtStart ==
  pc \in LoopPcs => batch = startData

\* ------------------------------------------------------------------------
\* C20: every started run leaves Running and ends Stopped or Completed, given
\* that awaited timers and device transfers resolve.  The epoch counter goes
\* up by one per iteration and stays within the epoch limit, and when the run
\* ends the running flag is false and the train control is enabled again.
C20_RunTerminates ==
  /\ [](pc # "idle" => <>(pc = "idle"))
  /\ [](epoch <= MaxEpochs /\ epochsRun <= MaxEpochs)
  /\ [][/\ (epoch' # epoch /\ run' = run) => (pc # "idle" /\ epoch' = epoch + 1)
        /\ RunEnds =>
             /\ ~isTraining'
             /\ ~trainBtnDisabled'
             /\ exitKind' \in {"limit", "cancel", "error"}
             /\ (status' = "completed") => exitKind' = "limit"]_vars
C20_Witness ==
  /\ pc = "idle"
  /\ ~isTraining
  /\ ~trainBtnDisabled
  /\ exitKind = "limit"
  /\ epochsRun = MaxEpochs
  /\ status = "completed"
  /\ mode = "gpu"

\* ------------------------------------------------------------------------
\* Two ways to lay out the weights of a layer: the weight from input k to unit
\* j of a layer with numInputs inputs and numUnits units.
RowPerUnit(j, k, numInputs, numUnits) == j * numInputs + k
RowPerInput(j, k, numInputs, numUnits) == k * numUnits + j

\* what the device stored for sample idx in this epoch's forward pass
DevicePre(idx, h) == buffers.pre_activation[idx * (HIDDEN_SIZE + 1) + h]
DeviceOutputDelta(idx) == RSub(buffers.output[idx], buffers.target_val[idx])
\* the delta of hidden unit h for sample idx when weights2 is laid out by At
DeviceHiddenDelta(At(_, _, _, _), idx, h) ==
  RMul(RMul(DeviceOutputDelta(idx),
            initialBuffers.weights2[At(0, h, HIDDEN_SIZE, OUTPUT_SIZE)]),
       relu_derivative(DevicePre(idx, h)))

\* the forward pass multiplies input i by the weight at At(h, i) in the sum of
\* hidden unit h, and the activation of h by the weight at At(0, h)
DeviceForwardLayout(At(_, _, _, _)) ==
  \A idx \in 0..(BatchSize - 1) :
    /\ \A h \in Hidden :
         DevicePre(idx, h)
           = Accumulate(initialBuffers.bias1[h],
                        [i \in Inputs |->
                           RMul(buffers.input[idx * INPUT_SIZE + i],
                                initialBuffers.weights1[At(h, i, INPUT_SIZE, HIDDEN_SIZE)])],
                        INPUT_SIZE)
    /\ DevicePre(idx, HIDDEN_SIZE)
         = Accumulate(initialBuffers.bias2[0],
                      [h \in Hidden |->
                         RMul(relu(DevicePre(idx, h)),
                              initialBuffers.weights2[At(0, h, HIDDEN_SIZE, OUTPUT_SIZE)])],
                      HIDDEN_SIZE)

\* the gradient pass stores the gradient of that weight at the same place of
\* the sample's slice
DeviceGradientLayout(At(_, _, _, _)) ==
  \A idx \in 0..(BatchSize - 1), h \in Hidden :
    /\ buffers.grad_weights2[idx * HIDDEN_SIZE + At(0, h, HIDDEN_SIZE, OUTPUT_SIZE)]
         = RMul(relu(DevicePre(idx, h)), DeviceOutputDelta(idx))
    /\ \A i \in Inputs :
         buffers.grad_weights1[idx * INPUT_SIZE * HIDDEN_SIZE
                                 + At(h, i, INPUT_SIZE, HIDDEN_SIZE)]
           = RMul(DeviceHiddenDelta(At, idx, h), buffers.input[idx * INPUT_SIZE + i])

\* the update pass moves the weight at that place by the mean gradient of the
\* weight from input i to hidden unit h
DeviceUpdateLayout(At(_, _, _, _)) ==
  \A h \in Hidden, i \in Inputs :
    LET term(s) == RMul(DeviceHiddenDelta(At, s - 1, h),
                        buffers.input[(s - 1) * INPUT_SIZE + i])
    IN buffers.weights1[At(h, i, INPUT_SIZE, HIDDEN_SIZE)]
         = RSub(initialBuffers.weights1[At(h, i, INPUT_SIZE, HIDDEN_SIZE)],
                RMul(LEARNING_RATE, BatchMean(term)))

\* the host's forwardPass and computeGradients use the weight at At(j, k) as
\* the weight from input k to unit j
HostLayout(At(_, _, _, _)) ==
  \A l \in 1..Len(HostModel) :
    LET layer == HostModel[l]
    IN \A j \in 0..(layer.numUnits - 1) :
         /\ \A s \in 1..Len(trainingData) :
              PreActivations(HostModel, HostInputs(trainingData)[s], l)[j]
                = Accumulate(layer.bias[j],
                             [k \in 0..(layer.numInputs - 1) |->
                                RMul(SampleLayerInput(s, l)[k],
                                     layer.weights[At(j, k, layer.numInputs, layer.numUnits)])],
                             layer.numInputs)
         /\ \A k \in 0..(layer.numInputs - 1) :
              LET term(s) == RMul(SampleDelta(s, l)[j], SampleLayerInput(s, l)[k])
              IN hostGradients[l].weightGrads[At(j, k, layer.numInputs, layer.numUnits)]
                   = BatchMean(term)

UpdatesDone == kStage = "done" \/ (kStage = "update" /\ pending = {})
LayoutIn(HostAt(_, _, _, _), DeviceAt(_, _, _, _)) ==
  /\ HostGradientsDone => HostLayout(HostAt)
  /\ OutputsReady => DeviceForwardLayout(DeviceAt)
  /\ GradientsDone => DeviceGradientLayout(DeviceAt)
  /\ UpdatesDone => DeviceUpdateLayout(DeviceAt)

\* C21 as stated: in both backends the weight from input k to unit j of a
\* layer is at index j * numInputs + k (row-major, one row per unit) in the
\* forward, gradient and update code.
C21_RowPerUnitInBothBackends == LayoutIn(RowPerUnit, RowPerUnit)

\* C21 as amended: the host keeps the weight from input k to unit j at
\* j * numInputs + k; the device keeps it at k * numUnits + j (one row per
\* input) in its forward, gradient and update passes.  For the output layer,
\* which has one unit, the two places are the same.
C21_LayoutPerBackend == LayoutIn(RowPerUnit, RowPerInput)
C21_Witness ==
  /\ kStage = "done"
  /\ kEpoch = 1
  /\ BatchSize > 1
  /\ \E h \in Hidden, i \in Inputs :
       /\ initialBuffers.weights1[RowPerUnit(h, i, INPUT_SIZE, HIDDEN_SIZE)]
            # initialBuffers.weights1[RowPerInput(h, i, INPUT_SIZE, HIDDEN_SIZE)]
       /\ buffers.weights1[RowPerInput(h, i, INPUT_SIZE, HIDDEN_SIZE)]
            # initialBuffers.weights1[RowPerInput(h, i, INPUT_SIZE, HIDDEN_SIZE)]

\* ------------------------------------------------------------------------
\* a start request is accepted: trainModel passes its validation
StartAccepted == run' # run
\* the stop handler has cleared the flag and the loop has not yet seen it
StopPending == Running /\ flagSet /\ stopSeenAt < 0 /\ exitKind = "none"
\* the submitted device work is in the order of the runs that submitted it
QueueInRunOrder ==
  \A i \in 1..Len(gpuQueue), j \in 1..Len(gpuQueue) :
    i < j => /\ gpuQueue[i].run <= gpuQueue[j].run
             /\ gpuQueue[j].run <= run

\* C22: at most one run is active.  A start request is accepted only when no
\* run is active (trainModel is not between its entry and its exit), also
\* after Stop was pressed and before the loop has seen the flag; while a run
\* is active the train button is disabled.  The running flag is set only
\* during a run, every entry of the loss history is one of the current run,
\* the epoch counter moves only by the steps of the one active run, and the
\* device is handed the epochs of one run after those of the run before.
C22_OneActiveRun ==
  /\ [](Running => trainBtnDisabled)
  /\ [](isTraining => Running)
  /\ [](\A i \in 1..Len(lossHistory) : lossHistory[i].run = run)
  /\ [](QueueInRunOrder)
  /\ [][/\ StartAccepted =>
             /\ ~Running /\ ~isTraining /\ ~StopPending
             /\ run' = run + 1
             /\ Running' /\ isTraining' /\ trainBtnDisabled' /\ lossHistory' = <<>>
        /\ (Running /\ ~StartAccepted /\ epoch' # epoch) => epoch' = epoch + 1
        /\ (Running /\ Running') => run' = run]_vars
C22_Witness ==
  /\ run = MaxRuns
  /\ StopPending
  /\ pc \in YieldPcs
  /\ trainBtnDisabled
  /\ ~isTraining
  /\ epoch > 0

\* ------------------------------------------------------------------------
\* the stop handler has cleared the flag during the run that is still active
CancelledRun == Running /\ flagSet
\* an update step changes the parameters of the run (GpuSetup makes new ones)
AppliesUpdate == params' # params /\ ~NewParameters

\* C23: once the cancellation flag has been set during a run, that run
\* applies no further update step and appends no further loss to the history
\* (a loss is appended together with its progress report), in both backends
\* and at whichever suspension of a metric epoch the flag was set.
C23_NothingAfterCancel ==
  [][CancelledRun => (~AppliesUpdate /\ ~AppendsLoss)]_vars

\* ------------------------------------------------------------------------
\* the update steps behind the loss that the host reports for epoch e: its
\* calculateMetrics runs after the updateWeights of that epoch
StepsBehindHostReport(e) == e + 1
\* the history entries the current run has appended (a run's mode is fixed)
ReportsOf(m) == IF mode = m THEN {lossHistory[i] : i \in 1..Len(lossHistory)} ELSE {}

\* C24: the loss reported for metric epoch e is evaluated on parameters that
\* have received the same number of update steps in the host driver and in
\* the device driver, so that the two loss sequences correspond entry for
\* entry: the host's entry for epoch e rests on e + 1 update steps, and so
\* does the device's.
C24_SameStepsBehindReport ==
  /\ \A r \in ReportsOf("cpu") : r.steps = StepsBehindHostReport(r.epoch)
  /\ \A r \in ReportsOf("gpu") : r.steps = StepsBehindHostReport(r.epoch)

\* ------------------------------------------------------------------------
\* the metric epochs of the current run that have appended their loss: those
\* below the loop counter, and the current one once its report is made
MetricEpochsReported ==
  IF pc \in AfterMetricsPcs THEN epoch \div MetricInterval + 1
  ELSE (epoch + MetricInterval - 1) \div MetricInterval

\* C25: at every point of a run the loss history holds exactly one entry for
\* each metric epoch of that run completed so far, in epoch order, whatever
\* handlers ran during the yields of the run.
C25_HistoryMatchesReports ==
  Running =>
    /\ Len(lossHistory) = MetricEpochsReported
    /\ \A i \in 1..Len(lossHistory) :
         /\ lossHistory[i].run = run
         /\ lossHistory[i].epoch = (i - 1) * MetricInterval

====
